---- MODULE Spec2Model ----
(***************************************************************************)
(* A model of reflect.go of the configurator package: the struct walker    *)
(* getStructInfo, the tag parser parseTag, the key derivation of fieldInfo *)
(* and the coercion functions setFieldValue / setPtrValue.                 *)
(*                                                                         *)
(* Go strings are sequences of one-character strings, so that prefix       *)
(* tests, splitting, joining and case conversion are computed and not      *)
(* assumed.  A Go type is a sequence of "ptr" marks followed by a base     *)
(* name (a scalar kind, "Duration", "Time" or the name of a declared       *)
(* struct).  A Go value is a tree, a reflect.Value handle is a path into   *)
(* the tree together with the handle's type.                               *)
(***************************************************************************)
EXTENDS Integers, Sequences, FiniteSets, TLC

VARIABLES
    arg,        \* how the root is passed to getStructInfo: "ptr", "nilptr", "value"
    root,       \* the root's base type
    val,        \* the root value (caller-owned memory, mutated in place)
    pre,        \* val as it was when the last getStructInfo call started
    catalog,    \* the fields of the last structInfo returned
    st,         \* outcome of the last getStructInfo call
    phase,      \* "init", "built" (a catalog was just built), "bound" (a field was coerced)
    ncoerce,    \* number of fields the binder has coerced
    tagIn,      \* the struct tag handed to parseTag
    tagOut,     \* what parseTag returned for tagIn
    dstType,    \* declared type of the destination handed to setFieldValue
    dst,        \* the destination's value
    raw,        \* the raw string handed to setFieldValue
    res         \* what the last setFieldValue call returned

vars == <<arg, root, val, pre, catalog, st, phase, ncoerce, tagIn, tagOut, dstType, dst, raw, res>>

walkVars == <<arg, root, val, pre, catalog, st, phase, ncoerce>>
tagVars == <<tagIn, tagOut>>
coerceVars == <<dstType, dst, raw>>

(***************************************************************************)
(* Bounds of the model.                                                    *)
(***************************************************************************)
\* Depth of nested getStructInfo calls the goroutine stack holds before the
\* runtime aborts the program with a stack overflow.
MaxDepth == 6
\* Number of comma separated tokens in a generated struct tag.
MaxTokens == 2
\* Length of the generated raw strings.
MaxRawLen == 3
\* Levels of pointers already populated in the struct handed to the walker.
MaxPopulate == 2
\* Number of fields the binder coerces.
MaxCoerce == 1

(***************************************************************************)
(* Strings.                                                                *)
(***************************************************************************)
LowerLetters == <<"a","b","c","d","e","f","g","h","i","j","k","l","m",
                  "n","o","p","q","r","s","t","u","v","w","x","y","z">>
UpperLetters == <<"A","B","C","D","E","F","G","H","I","J","K","L","M",
                  "N","O","P","Q","R","S","T","U","V","W","X","Y","Z">>

IsUpper(c) == \E i \in DOMAIN UpperLetters : UpperLetters[i] = c
IsLower(c) == \E i \in DOMAIN LowerLetters : LowerLetters[i] = c

UpperChar(c) ==
    IF IsLower(c)
    THEN UpperLetters[CHOOSE i \in DOMAIN LowerLetters : LowerLetters[i] = c]
    ELSE c

LowerChar(c) ==
    IF IsUpper(c)
    THEN LowerLetters[CHOOSE i \in DOMAIN UpperLetters : UpperLetters[i] = c]
    ELSE c

\* strings.ToUpper / strings.ToLower
ToUpper(s) == [i \in DOMAIN s |-> UpperChar(s[i])]
ToLower(s) == [i \in DOMAIN s |-> LowerChar(s[i])]

\* strings.HasPrefix / strings.TrimPrefix
HasPrefix(s, p) == Len(s) >= Len(p) /\ SubSeq(s, 1, Len(p)) = p
TrimPrefix(s, p) == IF HasPrefix(s, p) THEN SubSeq(s, Len(p) + 1, Len(s)) ELSE s

\* strings.Join
RECURSIVE Join(_, _)
Join(parts, sep) ==
    IF Len(parts) = 0 THEN <<>>
    ELSE IF Len(parts) = 1 THEN parts[1]
    ELSE parts[1] \o sep \o Join(Tail(parts), sep)

\* strings.Split with a one character separator: always at least one part.
RECURSIVE Split(_, _)
Split(s, sep) ==
    IF \A i \in DOMAIN s : s[i] # sep THEN <<s>>
    ELSE LET k == CHOOSE i \in DOMAIN s : s[i] = sep /\ \A j \in 1..(i - 1) : s[j] # sep
         IN  <<SubSeq(s, 1, k - 1)>> \o Split(SubSeq(s, k + 1, Len(s)), sep)

(***************************************************************************)
(* Tags: parseTag, parseENV, parseFlag, parseDefault.                      *)
(***************************************************************************)
tagSeparator == ","
flagFlag == <<"f","l","a","g">>
flagFlagWithValue == <<"f","l","a","g","=">>
envFlag == <<"e","n","v">>
envFlagWithValue == <<"e","n","v","=">>
defaultFlag == <<"d","e","f","a","u","l","t">>
defaultFlagWithValue == <<"d","e","f","a","u","l","t","=">>

\* tagInfo{}
ZeroTag == [flag |-> <<>>, hasFlag |-> FALSE, env |-> <<>>, hasENV |-> FALSE,
            defVal |-> <<>>, hasDefault |-> FALSE]

\* A bare `env` after `env=A` clears the explicit value.
parseENV_ClearsOnBare(t, v) ==
    IF HasPrefix(v, envFlagWithValue)
    THEN [err |-> TrimPrefix(v, envFlagWithValue) = <<>>,
          tag |-> [t EXCEPT !.hasENV = TRUE, !.env = TrimPrefix(v, envFlagWithValue)]]
    ELSE [err |-> FALSE, tag |-> [t EXCEPT !.hasENV = TRUE, !.env = <<>>]]

parseENV(t, v) ==
    IF HasPrefix(v, envFlagWithValue)
    THEN [err |-> TrimPrefix(v, envFlagWithValue) = <<>>,
          tag |-> [t EXCEPT !.hasENV = TRUE, !.env = TrimPrefix(v, envFlagWithValue)]]
    ELSE [err |-> FALSE, tag |-> [t EXCEPT !.hasENV = TRUE]]

parseFlag(t, v) ==
    IF HasPrefix(v, flagFlagWithValue)
    THEN [err |-> TrimPrefix(v, flagFlagWithValue) = <<>>,
          tag |-> [t EXCEPT !.hasFlag = TRUE, !.flag = TrimPrefix(v, flagFlagWithValue)]]
    ELSE [err |-> FALSE, tag |-> [t EXCEPT !.hasFlag = TRUE]]

parseDefault(t, v) ==
    IF HasPrefix(v, defaultFlagWithValue)
    THEN [err |-> TrimPrefix(v, defaultFlagWithValue) = <<>>,
          tag |-> [t EXCEPT !.hasDefault = TRUE, !.defVal = TrimPrefix(v, defaultFlagWithValue)]]
    ELSE [err |-> FALSE, tag |-> [t EXCEPT !.hasDefault = TRUE]]

\* One iteration of the switch in parseTag.
parseToken(t, s) ==
    IF HasPrefix(s, envFlag) THEN parseENV(t, s)
    ELSE IF HasPrefix(s, flagFlag) THEN parseFlag(t, s)
    ELSE IF HasPrefix(s, defaultFlag) THEN parseDefault(t, s)
    ELSE [err |-> FALSE, tag |-> t]

\* The loop of parseTag over the tokens: it returns at the first error.
RECURSIVE parseTokens(_, _)
parseTokens(t, tags) ==
    IF Len(tags) = 0 THEN [err |-> FALSE, tag |-> t]
    ELSE LET r == parseToken(t, Head(tags))
         IN  IF r.err THEN [err |-> TRUE, tag |-> ZeroTag]
             ELSE parseTokens(r.tag, Tail(tags))

parseTag(tagString) == parseTokens(ZeroTag, Split(tagString, tagSeparator))

(***************************************************************************)
(* Types.                                                                  *)
(***************************************************************************)
SignedKinds == {"int", "int8", "int16", "int32", "int64"}
UnsignedKinds == {"uint", "uint8", "uint16", "uint32", "uint64"}
FloatKinds == {"float32", "float64"}
ScalarBases == {"bool", "string", "Duration"} \cup SignedKinds \cup UnsignedKinds \cup FloatKinds

\* reflect.TypeOf(time.Time{}), reflect.TypeOf((*time.Time)(nil))
timeType == <<"Time">>
timePtrType == <<"ptr", "Time">>
\* The type time.Duration.
durationType == <<"Duration">>

Ptr(t) == <<"ptr">> \o t
\* reflect.Type.Elem of a pointer type
Elem(t) == Tail(t)
Base(t) == t[Len(t)]

\* reflect.Type.Kind
Kind(t) ==
    IF t[1] = "ptr" THEN "ptr"
    ELSE IF t[1] = "Duration" THEN "int64"
    ELSE IF t[1] \in ScalarBases \cup {"slice", "map"} THEN t[1]
    ELSE "struct"

(***************************************************************************)
(* The struct declarations the walker is run on.  A field is its declared  *)
(* name, its declared type, whether it is embedded (reflect.StructField's  *)
(* Anonymous) and its `config` tag.                                        *)
(***************************************************************************)
Fld(name, type, anonymous, tag) ==
    [name |-> name, type |-> type, anonymous |-> anonymous, tag |-> tag]

tEnv == envFlag
tFlag == flagFlag
tEnvFlag == <<"e","n","v",",","f","l","a","g">>
tNone == <<>>

StructDefs ==
    [ Flat |-> <<
        Fld(<<"H","o","s","t">>, <<"string">>, FALSE, tEnvFlag),
        Fld(<<"P","o","r","t">>, <<"int">>, FALSE,
            <<"e","n","v","=","S","_","P",",","d","e","f","a","u","l","t","=","8","0">>),
        Fld(<<"s","e","c","r","e","t">>, <<"string">>, FALSE, tEnv) >>,
      Db |-> <<
        Fld(<<"H","o","s","t">>, <<"string">>, FALSE, tEnvFlag),
        Fld(<<"p","w">>, <<"string">>, FALSE, tEnv),
        Fld(<<"M","a","x","C","o","n","n">>, <<"int8">>, FALSE,
            <<"e","n","v",",","f","l","a","g","=","m","c">>) >>,
      Empty |-> << >>,
      Server |-> <<
        Fld(<<"N","a","m","e">>, <<"string">>, FALSE, tEnv),
        Fld(<<"D","b">>, <<"Db">>, FALSE, <<"e","n","v","=","D">>),
        Fld(<<"E","m","p","t","y">>, <<"Empty">>, FALSE, tNone),
        Fld(<<"T","t","l">>, <<"Duration">>, FALSE, tEnvFlag),
        Fld(<<"A","t">>, <<"Time">>, FALSE, tFlag),
        Fld(<<"h","i","d","d","e","n">>, <<"Db">>, FALSE, tNone) >>,
      Base |-> <<
        Fld(<<"I","d">>, <<"int">>, FALSE, tEnvFlag) >>,
      Mid |-> <<
        Fld(<<"B","a","s","e">>, <<"Base">>, TRUE, tNone),
        Fld(<<"T","l","s">>, <<"bool">>, FALSE, tEnv) >>,
      App |-> <<
        Fld(<<"B","a","s","e">>, <<"Base">>, TRUE, tEnv),
        Fld(<<"N","a","m","e">>, <<"string">>, FALSE, tFlag),
        Fld(<<"D","b">>, <<"Db">>, FALSE, tNone) >>,
      Outer |-> <<
        Fld(<<"I","n","n","e","r">>, <<"Mid">>, FALSE, tNone),
        Fld(<<"M","i","d">>, <<"Mid">>, TRUE, tNone) >>,
      EmbPtr |-> <<
        Fld(<<"B","a","s","e">>, <<"ptr", "Base">>, TRUE, tNone),
        Fld(<<"Z","o","n","e">>, <<"string">>, FALSE, tEnv),
        Fld(<<"R","a","t","e">>, <<"float32">>, TRUE, tEnvFlag) >>,
      PtrCfg |-> <<
        Fld(<<"D","b">>, <<"ptr", "Db">>, FALSE, tNone),
        Fld(<<"N">>, <<"ptr", "int">>, FALSE, tEnv),
        Fld(<<"O","n">>, <<"ptr", "bool">>, FALSE, tFlag) >>,
      PP |-> <<
        Fld(<<"R","e","f">>, <<"ptr", "ptr", "Db">>, FALSE, tEnv),
        Fld(<<"C","n","t">>, <<"ptr", "ptr", "int">>, FALSE, tEnv) >>,
      Node |-> <<
        Fld(<<"V","a","l">>, <<"int">>, FALSE, tEnv),
        Fld(<<"N","e","x","t">>, <<"ptr", "Node">>, FALSE, tNone) >>,
      A |-> <<
        Fld(<<"B">>, <<"ptr", "B">>, FALSE, tNone) >>,
      B |-> <<
        Fld(<<"X">>, <<"int">>, FALSE, tEnv),
        Fld(<<"A">>, <<"ptr", "A">>, FALSE, tNone) >>,
      Times |-> <<
        Fld(<<"A","t">>, <<"Time">>, FALSE, tEnv),
        Fld(<<"U","n","t","i","l">>, <<"ptr", "Time">>, FALSE, tFlag),
        Fld(<<"T","a","g","s">>, <<"slice">>, FALSE,
            <<"e","n","v","=","T",",","e","n","v">>) >>,
      Deep |-> <<
        Fld(<<"M","i","d">>, <<"ptr", "MidP">>, FALSE, tNone),
        Fld(<<"u","p">>, <<"ptr", "Db">>, FALSE, tNone),
        Fld(<<"C","n","t">>, <<"ptr", "int8">>, FALSE, tEnv) >>,
      MidP |-> <<
        Fld(<<"L","e","a","f">>, <<"ptr", "Base">>, FALSE, tNone),
        Fld(<<"N">>, <<"ptr", "int">>, FALSE, tEnv) >>,
      BadTag |-> <<
        Fld(<<"O","k">>, <<"int">>, FALSE, tEnv),
        Fld(<<"X">>, <<"int">>, FALSE, <<"e","n","v","=">>) >>,
      BadIn |-> <<
        Fld(<<"B","a","s","e">>, <<"ptr", "Base">>, FALSE, tNone),
        Fld(<<"B","a","d">>, <<"BadTag">>, FALSE, tNone) >>,
      Time |-> <<
        Fld(<<"w","a","l","l">>, <<"uint64">>, FALSE, tNone),
        Fld(<<"e","x","t">>, <<"int64">>, FALSE, tNone),
        Fld(<<"l","o","c">>, <<"ptr", "Location">>, FALSE, tNone) >>,
      Location |-> << >> ]

StructNames == DOMAIN StructDefs

\* The roots handed to getStructInfo: every declared struct but the
\* standard library's, and one type that is no struct.
RootTypes == (StructNames \ {"Time", "Location"}) \cup {"int"}

(***************************************************************************)
(* Values.  Every value is a record of the same shape: k the sort of the   *)
(* value, n a number, s a string, d a sequence of numbers, fs the          *)
(* components (the fields of a struct, the target of a non-nil pointer).   *)
(***************************************************************************)
Val(k, n, s, d, fs) == [k |-> k, n |-> n, s |-> s, d |-> d, fs |-> fs]

VNum(n) == Val("num", n, <<>>, <<>>, <<>>)
VBool(b) == Val("bool", IF b THEN 1 ELSE 0, <<>>, <<>>, <<>>)
VStr(s) == Val("str", 0, s, <<>>, <<>>)
\* A float is mant / 10^scale.
VFloat(mant, scale) == Val("float", 0, <<>>, <<mant, scale>>, <<>>)
\* A time.Time is <<year, month, day, hour, minute, second>> in UTC.
VTime(d) == Val("time", 0, <<>>, d, <<>>)
VNil == Val("nil", 0, <<>>, <<>>, <<>>)
VPtr(v) == Val("ptr", 0, <<>>, <<>>, <<v>>)
VStruct(fs) == Val("struct", 0, <<>>, <<>>, fs)

ZeroTime == VTime(<<1, 1, 1, 0, 0, 0>>)

\* reflect.Zero / reflect.New(t).Elem(): the zero value of a type.
RECURSIVE Zero(_)
Zero(t) ==
    IF Kind(t) \in {"ptr", "slice", "map"} THEN VNil
    ELSE IF t = timeType THEN ZeroTime
    ELSE IF Kind(t) = "struct"
         THEN VStruct([i \in DOMAIN StructDefs[t[1]] |-> Zero(StructDefs[t[1]][i].type)])
    ELSE IF Kind(t) = "bool" THEN VBool(FALSE)
    ELSE IF Kind(t) = "string" THEN VStr(<<>>)
    ELSE IF Kind(t) \in FloatKinds THEN VFloat(0, 0)
    ELSE VNum(0)

\* A location inside a value: a field index (>= 1) selects a struct field,
\* 0 follows a pointer.
Slot(step) == IF step = 0 THEN 1 ELSE step

RECURSIVE ValAt(_, _)
ValAt(v, loc) == IF loc = <<>> THEN v ELSE ValAt(v.fs[Slot(Head(loc))], Tail(loc))

RECURSIVE SetAt(_, _, _)
SetAt(v, loc, x) ==
    IF loc = <<>> THEN x
    ELSE [v EXCEPT !.fs[Slot(Head(loc))] = SetAt(v.fs[Slot(Head(loc))], Tail(loc), x)]

\* reflect.Value: where the handle points and the type it has.
Handle(loc, type) == [loc |-> loc, type |-> type]

(***************************************************************************)
(* fieldInfo and its methods.  parent is the chain of parent fieldInfos,   *)
(* outermost first, each given by the name its Name() returns.             *)
(***************************************************************************)
Name(f) == f.field.name

\* fieldInfo.path: the names along the parent chain, then the field's own.
path(f) == f.parent \o <<Name(f)>>

ENVKey(f) ==
    IF f.tag.hasENV
    THEN IF f.tag.env = <<>> THEN ToUpper(Join(path(f), <<"_">>)) ELSE f.tag.env
    ELSE <<>>

FlagKey(f) ==
    IF f.tag.hasFlag
    THEN IF f.tag.flag = <<>> THEN ToLower(Join(path(f), <<"-">>)) ELSE f.tag.flag
    ELSE <<>>

DefVal(f) == IF f.tag.hasDefault THEN f.tag.defVal ELSE <<>>

\* getFieldInfo: the descriptor of field t with handle v and parent chain p.
getFieldInfo(v, t, p) ==
    LET r == parseTag(t.tag)
    IN  [err |-> r.err,
         fi  |-> [field |-> t, val |-> v, parent |-> p, tag |-> r.tag]]

(***************************************************************************)
(* getStructInfo.                                                          *)
(***************************************************************************)
\* Every field is taken for settable.
CanSet_Always(ft) == TRUE

\* reflect.Value.CanSet of a field of an addressable struct: the field is
\* exported, that is, its name starts with an upper case letter.
CanSet(ft) == IsUpper(ft.name[1])

\* Allocates behind every nil pointer that is not a pointer to a pointer.
Vivifies_Scalars(elemType) == Kind(elemType) # "ptr"

\* Allocates behind every nil pointer on the way to a struct.
Vivifies_Chains(elemType) == Base(elemType) \in StructNames

\* The test of the pointer loop on a nil pointer: allocate if the pointed-to
\* type is a struct, else leave the nil pointer alone.
Vivifies(elemType) == Kind(elemType) = "struct"

\* The pointer loop: from the handle (loc, type) of a field in the value
\* rootv to the handle the loop ends with, and the value as the loop's
\* allocations leave it.
RECURSIVE ResolvePtr(_, _, _)
ResolvePtr(rootv, loc, type) ==
    IF Kind(type) # "ptr" THEN [root |-> rootv, loc |-> loc, type |-> type]
    ELSE IF ValAt(rootv, loc).k = "nil"
         THEN IF ~Vivifies(Elem(type))
              THEN [root |-> rootv, loc |-> loc, type |-> type]
              ELSE ResolvePtr(SetAt(rootv, loc, VPtr(Zero(Elem(type)))),
                              Append(loc, 0), Elem(type))
         ELSE ResolvePtr(rootv, Append(loc, 0), Elem(type))

\* An embedded struct becomes the parent of its fields like a named one.
InnerParent_NeverFlattens(ft, parent) == Append(parent, ft.name)

\* The parent handed to the recursive call for the struct field ft:
\* the field's own descriptor, or for an embedded field the current parent.
InnerParent(ft, parent) == IF ft.anonymous THEN parent ELSE Append(parent, ft.name)

\* getStructInfo(i, parent) with i a pointer to the struct of type `type` at
\* loc in rootv; fuel is the number of nested calls the stack still holds.
\* fieldLoop is the loop over the fields from index n on, si the fields
\* collected so far.
RECURSIVE getStructInfo(_, _, _, _, _, _)
RECURSIVE fieldLoop(_, _, _, _, _, _, _)
fieldLoop(rootv, loc, sname, n, parent, fuel, si) ==
    IF n > Len(StructDefs[sname]) THEN [st |-> "ok", fields |-> si, root |-> rootv]
    ELSE
    LET ft == StructDefs[sname][n]
        floc == Append(loc, n)
    IN  IF ~CanSet(ft) THEN fieldLoop(rootv, loc, sname, n + 1, parent, fuel, si)
        ELSE IF ft.type = timeType \/ ft.type = timePtrType
        THEN LET g == getFieldInfo(Handle(floc, ft.type), ft, parent)
             IN  IF g.err
                 THEN [st |-> "ErrInvalidTagFormat", fields |-> <<>>, root |-> rootv]
                 ELSE fieldLoop(rootv, loc, sname, n + 1, parent, fuel, Append(si, g.fi))
        ELSE
        LET fv == ResolvePtr(rootv, floc, ft.type)
            g == getFieldInfo(Handle(fv.loc, fv.type), ft, parent)
        IN  IF g.err
            THEN [st |-> "ErrInvalidTagFormat", fields |-> <<>>, root |-> fv.root]
            ELSE IF Kind(fv.type) = "struct"
            THEN LET inner == getStructInfo("ptr", fv.root, fv.loc, fv.type,
                                            InnerParent(ft, parent), fuel - 1)
                 IN  IF inner.st # "ok"
                     THEN [st |-> inner.st, fields |-> <<>>, root |-> inner.root]
                     ELSE fieldLoop(inner.root, loc, sname, n + 1, parent, fuel,
                                    si \o inner.fields)
            ELSE fieldLoop(fv.root, loc, sname, n + 1, parent, fuel, Append(si, g.fi))

getStructInfo(how, rootv, loc, type, parent, fuel) ==
    IF fuel = 0 THEN [st |-> "overflow", fields |-> <<>>, root |-> rootv]
    ELSE IF how # "ptr" \/ Kind(type) # "struct"
    THEN [st |-> "ErrInvalidConfig", fields |-> <<>>, root |-> rootv]
    ELSE fieldLoop(rootv, loc, type[1], 1, parent, fuel, <<>>)

(***************************************************************************)
(* The literal parsers of strconv and time, on the literals of the model.  *)
(* Every number of the model lies inside the 32 bit range, so a 64 bit     *)
(* range check never fails and a 32 bit store never wraps; the 8 and 16    *)
(* bit widths are exact.                                                   *)
(***************************************************************************)
\* strconv.IntSize on a 64 bit platform
IntSize == 64

Digits == <<"0","1","2","3","4","5","6","7","8","9","a","b","c","d","e","f">>
IsDigit(c, base) == \E i \in 1..base : Digits[i] = LowerChar(c)
DigitVal(c) == (CHOOSE i \in DOMAIN Digits : Digits[i] = LowerChar(c)) - 1

\* The number the digits ds denote in the base, after acc.
RECURSIVE DigitsVal(_, _, _)
DigitsVal(ds, base, acc) ==
    IF Len(ds) = 0 THEN acc
    ELSE DigitsVal(Tail(ds), base, acc * base + DigitVal(Head(ds)))

Failed == [ok |-> FALSE, n |-> 0]

\* strconv.ParseUint(s, 0, bitSize): the base is taken from the prefix.  The
\* literals of the model have no underscores.
ParseUint(s, bitSize) ==
    IF Len(s) = 0 THEN Failed
    ELSE
    LET pre3 == Len(s) >= 3 /\ s[1] = "0"
        base == IF pre3 /\ LowerChar(s[2]) = "x" THEN 16
                ELSE IF pre3 /\ LowerChar(s[2]) = "b" THEN 2
                ELSE IF s[1] = "0" THEN 8
                ELSE 10
        ds == IF pre3 /\ LowerChar(s[2]) \in {"x", "b", "o"} THEN SubSeq(s, 3, Len(s))
              ELSE IF s[1] = "0" THEN Tail(s)
              ELSE s
    IN  IF \E i \in DOMAIN ds : ~IsDigit(ds[i], base) THEN Failed
        ELSE LET n == DigitsVal(ds, base, 0)
             IN  IF bitSize < 32 /\ n >= 2 ^ bitSize THEN Failed
                 ELSE [ok |-> TRUE, n |-> n]

\* strconv.ParseInt(s, 0, bitSize)
ParseInt(s, bitSize) ==
    IF Len(s) = 0 THEN Failed
    ELSE
    LET neg == s[1] = "-"
        un == ParseUint(IF s[1] \in {"+", "-"} THEN Tail(s) ELSE s, 64)
    IN  IF ~un.ok THEN Failed
        ELSE IF bitSize < 32 /\ ~neg /\ un.n >= 2 ^ (bitSize - 1) THEN Failed
        ELSE IF bitSize < 32 /\ neg /\ un.n > 2 ^ (bitSize - 1) THEN Failed
        ELSE [ok |-> TRUE, n |-> IF neg THEN 0 - un.n ELSE un.n]

\* strconv.ParseBool
ParseBool(s) ==
    IF s \in {<<"1">>, <<"t">>, <<"T">>, <<"t","r","u","e">>, <<"T","R","U","E">>,
              <<"T","r","u","e">>}
    THEN [ok |-> TRUE, n |-> 1]
    ELSE IF s \in {<<"0">>, <<"f">>, <<"F">>, <<"f","a","l","s","e">>,
                   <<"F","A","L","S","E">>, <<"F","a","l","s","e">>}
    THEN [ok |-> TRUE, n |-> 0]
    ELSE Failed

\* mant / 10^scale without trailing zeros in the fraction.
RECURSIVE Normal(_, _)
Normal(mant, scale) ==
    IF scale > 0 /\ mant % 10 = 0 THEN Normal(mant \div 10, scale - 1)
    ELSE <<mant, scale>>

\* strconv.ParseFloat(s, 64) on decimal literals without an exponent.
ParseFloat(s) ==
    LET neg == Len(s) > 0 /\ s[1] = "-"
        body == IF Len(s) > 0 /\ s[1] \in {"+", "-"} THEN Tail(s) ELSE s
        parts == Split(body, ".")
        ds == Join(parts, <<>>)
    IN  IF Len(parts) > 2 \/ Len(ds) = 0 \/ \E i \in DOMAIN ds : ~IsDigit(ds[i], 10)
        THEN [ok |-> FALSE, d |-> <<0, 0>>]
        ELSE LET m == DigitsVal(ds, 10, 0)
                 sc == IF Len(parts) = 2 THEN Len(parts[2]) ELSE 0
             IN  [ok |-> TRUE, d |-> Normal(IF neg THEN 0 - m ELSE m, sc)]

\* The units of time.ParseDuration the model knows, in seconds.  A Duration
\* is counted in seconds: the literals of the model have no shorter unit.
UnitSeconds(u) == IF u = "h" THEN 3600 ELSE IF u = "m" THEN 60 ELSE 1

\* The groups `digits unit` of a duration literal, summed up; -1 on a
\* malformed group.
RECURSIVE DurationGroups(_, _)
DurationGroups(s, acc) ==
    IF Len(s) = 0 THEN acc
    ELSE
    LET k == IF \A i \in DOMAIN s : IsDigit(s[i], 10) THEN Len(s) + 1
             ELSE CHOOSE i \in DOMAIN s :
                      ~IsDigit(s[i], 10) /\ \A j \in 1..(i - 1) : IsDigit(s[j], 10)
    IN  IF k = 1 \/ k > Len(s) \/ s[k] \notin {"h", "m", "s"} THEN 0 - 1
        ELSE DurationGroups(SubSeq(s, k + 1, Len(s)),
                            acc + DigitsVal(SubSeq(s, 1, k - 1), 10, 0) * UnitSeconds(s[k]))

\* time.ParseDuration
ParseDuration(s) ==
    LET neg == Len(s) > 0 /\ s[1] = "-"
        body == IF Len(s) > 0 /\ s[1] \in {"+", "-"} THEN Tail(s) ELSE s
    IN  IF body = <<"0">> THEN [ok |-> TRUE, n |-> 0]
        ELSE IF Len(body) = 0 \/ DurationGroups(body, 0) < 0 THEN Failed
        ELSE [ok |-> TRUE, n |-> IF neg THEN 0 - DurationGroups(body, 0)
                                 ELSE DurationGroups(body, 0)]

DaysIn(y, m) ==
    IF m = 2 THEN (IF y % 4 = 0 /\ (y % 100 # 0 \/ y % 400 = 0) THEN 29 ELSE 28)
    ELSE IF m \in {4, 6, 9, 11} THEN 30 ELSE 31

\* time.Parse(time.RFC3339, s) on the UTC form YYYY-MM-DDTHH:MM:SSZ.
ParseTime(s) ==
    LET num(a, b) == DigitsVal(SubSeq(s, a, b), 10, 0)
        shape == /\ Len(s) = 20
                 /\ \A i \in {1,2,3,4,6,7,9,10,12,13,15,16,18,19} : IsDigit(s[i], 10)
                 /\ s[5] = "-" /\ s[8] = "-" /\ s[11] = "T"
                 /\ s[14] = ":" /\ s[17] = ":" /\ s[20] = "Z"
    IN  IF ~shape THEN [ok |-> FALSE, d |-> <<>>]
        ELSE IF \/ num(6, 7) \notin 1..12
                \/ num(9, 10) \notin 1..DaysIn(num(1, 4), num(6, 7))
                \/ num(12, 13) > 23 \/ num(15, 16) > 59 \/ num(18, 19) > 59
        THEN [ok |-> FALSE, d |-> <<>>]
        ELSE [ok |-> TRUE, d |-> <<num(1, 4), num(6, 7), num(9, 10),
                                   num(12, 13), num(15, 16), num(18, 19)>>]

(***************************************************************************)
(* The setters of reflect.Value.  They panic on a handle of the wrong      *)
(* kind, Set on a value whose type is not the handle's.                    *)
(***************************************************************************)
Stored(rootv, h, x) == [res |-> "nil", root |-> SetAt(rootv, h.loc, x)]
Panic(rootv) == [res |-> "panic", root |-> rootv]
Returned(e, rootv) == [res |-> e, root |-> rootv]

Bits(kind) ==
    IF kind \in {"int8", "uint8"} THEN 8
    ELSE IF kind \in {"int16", "uint16"} THEN 16
    ELSE IF kind \in {"int32", "uint32"} THEN 32
    ELSE IntSize

\* The conversion intN(x) of a 64 bit x.
WrapSigned(x, bits) ==
    IF bits >= 32 THEN x
    ELSE ((x + 2 ^ (bits - 1)) % (2 ^ bits)) - 2 ^ (bits - 1)

\* The conversion uintN(x) of a 64 bit x.
WrapUnsigned(x, bits) == IF bits >= 32 THEN x ELSE x % (2 ^ bits)

SetBool(rootv, h, b) ==
    IF Kind(h.type) # "bool" THEN Panic(rootv)
    ELSE Stored(rootv, h, Val("bool", b, <<>>, <<>>, <<>>))

SetInt(rootv, h, x) ==
    IF Kind(h.type) \notin SignedKinds THEN Panic(rootv)
    ELSE Stored(rootv, h, VNum(WrapSigned(x, Bits(Kind(h.type)))))

SetUint(rootv, h, x) ==
    IF Kind(h.type) \notin UnsignedKinds THEN Panic(rootv)
    ELSE Stored(rootv, h, VNum(WrapUnsigned(x, Bits(Kind(h.type)))))

\* float32(x) is x for every literal of the model: they are integers below
\* 2^24 or have a fraction that is a multiple of 1/4.
SetFloat(rootv, h, d) ==
    IF Kind(h.type) \notin FloatKinds THEN Panic(rootv)
    ELSE Stored(rootv, h, VFloat(d[1], d[2]))

SetString(rootv, h, x) ==
    IF Kind(h.type) # "string" THEN Panic(rootv)
    ELSE Stored(rootv, h, VStr(x))

\* reflect.Value.Set(x) with x of type xType.
Set(rootv, h, xType, x) ==
    IF xType # h.type THEN Panic(rootv) ELSE Stored(rootv, h, x)

(***************************************************************************)
(* setFieldValue, setPtrValue, setSliceValue.                              *)
(***************************************************************************)
setSliceValue(rootv, h, typ, v) == Returned("nil", rootv)

setPtrValue(rootv, h, typ, v) ==
    LET k == Kind(Elem(typ))
    IN  IF k = "bool"
        THEN LET b == ParseBool(v)
             IN  IF ~b.ok THEN Returned("parse", rootv)
                 ELSE Set(rootv, h, <<"ptr", "bool">>, VPtr(Val("bool", b.n, <<>>, <<>>, <<>>)))
        ELSE IF k \in {"int", "int8", "int16", "int32"}
        THEN LET i == ParseInt(v, IntSize)
             IN  IF ~i.ok THEN Returned("parse", rootv)
                 ELSE Set(rootv, h, <<"ptr", "int64">>, VPtr(VNum(i.n)))
        ELSE IF k = "int64"
        THEN IF typ = durationType
             THEN LET i == ParseDuration(v)
                  IN  IF ~i.ok THEN Returned("parse", rootv)
                      ELSE Set(rootv, h, <<"ptr", "Duration">>, VPtr(VNum(i.n)))
             ELSE LET i == ParseInt(v, 64)
                  IN  IF ~i.ok THEN Returned("parse", rootv)
                      ELSE Set(rootv, h, <<"ptr", "int64">>, VPtr(VNum(i.n)))
        ELSE IF k \in {"uint", "uint8", "uint16", "uint32"}
        THEN LET u == ParseUint(v, IntSize)
             IN  IF ~u.ok THEN Returned("parse", rootv)
                 ELSE Set(rootv, h, <<"ptr", "uint64">>, VPtr(VNum(u.n)))
        ELSE IF k = "uint64"
        THEN LET u == ParseUint(v, 64)
             IN  IF ~u.ok THEN Returned("parse", rootv)
                 ELSE Set(rootv, h, <<"ptr", "uint64">>, VPtr(VNum(u.n)))
        ELSE IF k \in FloatKinds
        THEN LET f == ParseFloat(v)
             IN  IF ~f.ok THEN Returned("parse", rootv)
                 ELSE Set(rootv, h, <<"ptr", "float64">>, VPtr(VFloat(f.d[1], f.d[2])))
        ELSE IF k = "string"
        THEN Set(rootv, h, <<"ptr", "string">>, VPtr(VStr(v)))
        ELSE IF k = "struct"
        THEN IF typ = timePtrType
             THEN LET t == ParseTime(v)
                  IN  IF ~t.ok THEN Returned("parse", rootv)
                      ELSE LET w == Set(rootv, h, timePtrType, VPtr(VTime(t.d)))
                           IN  IF w.res = "panic" THEN w
                               ELSE Returned("ErrUnsupported", w.root)
             ELSE Returned("ErrUnsupported", rootv)
        ELSE Returned("ErrUnsupported", rootv)

\* setFieldValue(val, typ, v) with val the handle h into rootv: what it
\* returns ("nil" for no error, "parse" for the error of a literal parser,
\* "ErrUnsupported", or "panic") and rootv as the call leaves it.
setFieldValue(rootv, h, typ, v) ==
    LET k == Kind(typ)
    IN  IF k = "bool"
        THEN LET b == ParseBool(v)
             IN  IF ~b.ok THEN Returned("parse", rootv) ELSE SetBool(rootv, h, b.n)
        ELSE IF k \in {"int", "int8", "int16", "int32"}
        THEN LET i == ParseInt(v, IntSize)
             IN  IF ~i.ok THEN Returned("parse", rootv) ELSE SetInt(rootv, h, i.n)
        ELSE IF k = "int64"
        THEN IF typ = durationType
             THEN LET i == ParseDuration(v)
                  IN  IF ~i.ok THEN Returned("parse", rootv) ELSE SetInt(rootv, h, i.n)
             ELSE LET i == ParseInt(v, 64)
                  IN  IF ~i.ok THEN Returned("parse", rootv) ELSE SetInt(rootv, h, i.n)
        ELSE IF k \in {"uint", "uint8", "uint16", "uint32"}
        THEN LET u == ParseUint(v, IntSize)
             IN  IF ~u.ok THEN Returned("parse", rootv) ELSE SetUint(rootv, h, u.n)
        ELSE IF k = "uint64"
        THEN LET u == ParseUint(v, 64)
             IN  IF ~u.ok THEN Returned("parse", rootv) ELSE SetUint(rootv, h, u.n)
        ELSE IF k \in FloatKinds
        THEN LET f == ParseFloat(v)
             IN  IF ~f.ok THEN Returned("parse", rootv) ELSE SetFloat(rootv, h, f.d)
        ELSE IF k = "string" THEN SetString(rootv, h, v)
        ELSE IF k = "ptr" THEN setPtrValue(rootv, h, typ, v)
        ELSE IF k = "slice" THEN setSliceValue(rootv, h, typ, v)
        ELSE IF k = "struct"
        THEN IF typ = timeType
             THEN LET t == ParseTime(v)
                  IN  IF ~t.ok THEN Returned("parse", rootv)
                      ELSE LET w == Set(rootv, h, timeType, VTime(t.d))
                           IN  IF w.res = "panic" THEN w
                               ELSE Returned("ErrUnsupported", w.root)
             ELSE Returned("ErrUnsupported", rootv)
        ELSE Returned("ErrUnsupported", rootv)

(***************************************************************************)
(* The states the walker starts from.                                      *)
(***************************************************************************)
RECURSIVE SeqsOver(_)
SeqsOver(sets) ==
    IF Len(sets) = 0 THEN {<<>>}
    ELSE {<<x>> \o r : x \in sets[1], r \in SeqsOver(Tail(sets))}

\* The values of type t with at most d populated pointer levels; scalars
\* hold their zero value.
RECURSIVE InitVals(_, _)
InitVals(t, d) ==
    IF Kind(t) = "ptr"
    THEN {VNil} \cup (IF d = 0 THEN {} ELSE {VPtr(v) : v \in InitVals(Elem(t), d - 1)})
    ELSE IF Kind(t) = "struct" /\ t # timeType
    THEN {VStruct(fs) : fs \in SeqsOver(
             [i \in DOMAIN StructDefs[t[1]] |->
                 IF CanSet(StructDefs[t[1]][i])
                 THEN InitVals(StructDefs[t[1]][i].type, d)
                 ELSE {Zero(StructDefs[t[1]][i].type)}])}
    ELSE {Zero(t)}

ArgKinds == {"ptr", "nilptr", "value"}

NoTag == [done |-> FALSE, err |-> FALSE, tag |-> ZeroTag]

InitWalk ==
    /\ root \in RootTypes
    /\ arg \in ArgKinds
    /\ val \in (IF arg = "ptr" THEN InitVals(<<root>>, MaxPopulate) ELSE {Zero(<<root>>)})
    /\ pre = val
    /\ catalog = <<>>
    /\ st = "none"
    /\ phase = "init"
    /\ ncoerce = 0

IdleWalk ==
    /\ root = "int" /\ arg = "value" /\ val = Zero(<<"int">>) /\ pre = val
    /\ catalog = <<>> /\ st = "none" /\ phase = "init" /\ ncoerce = 0
IdleTag == tagIn = <<>> /\ tagOut = NoTag
IdleCoerce == dstType = <<"int">> /\ dst = Zero(<<"int">>) /\ raw = <<>>

Init == InitWalk /\ IdleTag /\ IdleCoerce /\ res = "none"

\* The program is gone after a stack overflow or a panic.
Alive == st # "overflow" /\ res # "panic"

\* A call getStructInfo(&val, nil) by the binder.
BuildCatalog ==
    /\ Alive
    /\ LET r == getStructInfo(arg, val, <<>>, <<root>>, <<>>, MaxDepth)
       IN  /\ pre' = val
           /\ val' = r.root
           /\ catalog' = r.fields
           /\ st' = r.st
    /\ phase' = "built"
    /\ UNCHANGED <<arg, root, res, ncoerce>>
    /\ UNCHANGED tagVars
    /\ UNCHANGED coerceVars

\* The raw strings the binder resolves for a field.
BinderRaws ==
    { <<"3">>, <<"3","0","0">>, <<"t","r","u","e">> }

\* The binder commits a raw string into the i-th field of the catalog:
\* setFieldValue(f.Value(), f.StructField().Type, v).
Coerce(i, v) ==
    /\ Alive
    /\ st = "ok"
    /\ ncoerce < MaxCoerce
    /\ i \in DOMAIN catalog
    /\ LET r == setFieldValue(val, catalog[i].val, catalog[i].field.type, v)
       IN  /\ val' = r.root
           /\ res' = r.res
    /\ phase' = "bound"
    /\ ncoerce' = ncoerce + 1
    /\ UNCHANGED <<arg, root, pre, catalog, st>>
    /\ UNCHANGED tagVars
    /\ UNCHANGED coerceVars

Next ==
    \/ BuildCatalog
    \/ \E i \in 1..Len(catalog), v \in BinderRaws : Coerce(i, v)

Spec == Init /\ [][Next]_vars

(***************************************************************************)
(* parseTag on generated tags.                                             *)
(***************************************************************************)
TagTokens ==
    { <<>>, <<"j","s","o","n">>,
      envFlag, envFlagWithValue, <<"e","n","v","=","A">>, <<"e","n","v","=","b">>,
      <<"e","n","v","x">>,
      flagFlag, flagFlagWithValue, <<"f","l","a","g","=","x">>,
      defaultFlag, defaultFlagWithValue, <<"d","e","f","a","u","l","t","=","1">> }

\* The tags of one to MaxTokens tokens.
Tags == { Join(ts, <<tagSeparator>>) : ts \in UNION { [1..k -> TagTokens] : k \in 1..MaxTokens } }

InitTag == tagIn \in Tags /\ tagOut = NoTag /\ IdleWalk /\ IdleCoerce /\ res = "none"

ParseTagCall ==
    /\ ~tagOut.done
    /\ LET r == parseTag(tagIn)
       IN  tagOut' = [done |-> TRUE, err |-> r.err, tag |-> r.tag]
    /\ UNCHANGED <<tagIn, res>>
    /\ UNCHANGED walkVars
    /\ UNCHANGED coerceVars

NextTag == ParseTagCall

SpecTag == InitTag /\ [][NextTag]_vars

(***************************************************************************)
(* setFieldValue on one destination of each declared type.                 *)
(***************************************************************************)
DestBases == ScalarBases \cup {"Time", "Db", "slice", "map"}

DestTypes == { <<b>> : b \in DestBases } \cup { <<"ptr", b>> : b \in DestBases }
             \cup { <<"ptr", "ptr", "int">> }

RawAlphabet == {"0", "1", "3", "-", "x", "s"}

RawStrings ==
    UNION { [1..k -> RawAlphabet] : k \in 0..MaxRawLen } \cup
    { <<"t","r","u","e">>, <<"F","A","L","S","E">>, <<"4","0","0","0","0">>,
      <<"7","0","0","0","0">>, <<"0","x","f","f","f","f">>, <<"-","1","2","9">>,
      <<"1",".","5">>, <<"0",".","2","5">>, <<"1","h","3","0","m">>, <<"5","s">>,
      <<"a","b","c">>,
      <<"2","0","0","6","-","0","1","-","0","2","T","1","5",":","0","4",":","0","5","Z">>,
      <<"2","0","0","6","-","1","3","-","0","2","T","1","5",":","0","4",":","0","5","Z">>,
      <<"2","0","0","6","-","0","1","-","0","2">> }

InitCoerce ==
    /\ dstType \in DestTypes
    /\ dst \in InitVals(dstType, 1)
    /\ raw = <<>>
    /\ res = "none"
    /\ IdleWalk /\ IdleTag

\* One call setFieldValue(dst, dstType, v).
SetFieldValueCall(v) ==
    /\ res = "none"
    /\ LET r == setFieldValue(dst, Handle(<<>>, dstType), dstType, v)
       IN  /\ dst' = r.root
           /\ res' = r.res
    /\ raw' = v
    /\ UNCHANGED dstType
    /\ UNCHANGED walkVars
    /\ UNCHANGED tagVars

NextCoerce == \E v \in RawStrings : SetFieldValueCall(v)

SpecCoerce == InitCoerce /\ [][NextCoerce]_vars

(***************************************************************************)
(* What the declarations say, read off StructDefs without the walker.      *)
(***************************************************************************)
MaxOf(S) == CHOOSE x \in S : \A y \in S : y <= x

IsPrefixOf(a, b) == Len(a) <= Len(b) /\ SubSeq(b, 1, Len(a)) = a

\* The declared field a location ends in, and the names of the non-embedded
\* ancestors on the way to it followed by the field's own name.
RECURSIVE DeclNames(_, _)
DeclNames(t, loc) ==
    IF Len(loc) = 0 THEN <<>>
    ELSE IF Head(loc) = 0 THEN DeclNames(Elem(t), Tail(loc))
    ELSE LET f == StructDefs[t[1]][Head(loc)]
             last == \A i \in DOMAIN Tail(loc) : Tail(loc)[i] = 0
         IN  IF last THEN <<f.name>>
             ELSE (IF f.anonymous THEN <<>> ELSE <<f.name>>) \o DeclNames(f.type, Tail(loc))

RECURSIVE DeclField(_, _)
DeclField(t, loc) ==
    IF Head(loc) = 0 THEN DeclField(Elem(t), Tail(loc))
    ELSE LET f == StructDefs[t[1]][Head(loc)]
         IN  IF \A i \in DOMAIN Tail(loc) : Tail(loc)[i] = 0 THEN f
             ELSE DeclField(f.type, Tail(loc))

\* Whether some embedded field lies on the way to the location.
RECURSIVE UnderEmbedded(_, _)
UnderEmbedded(t, loc) ==
    IF Len(loc) = 0 THEN FALSE
    ELSE IF Head(loc) = 0 THEN UnderEmbedded(Elem(t), Tail(loc))
    ELSE LET f == StructDefs[t[1]][Head(loc)]
         IN  IF \A i \in DOMAIN Tail(loc) : Tail(loc)[i] = 0 THEN FALSE
             ELSE f.anonymous \/ UnderEmbedded(f.type, Tail(loc))

\* The directives of a family in a tag: whether there is one, and the value
\* of the last one of the form `family=VALUE` (empty if there is none).
HasDirective(tag, bare) ==
    \E i \in DOMAIN Split(tag, tagSeparator) : HasPrefix(Split(tag, tagSeparator)[i], bare)

LastExplicit(tag, withValue) ==
    LET toks == Split(tag, tagSeparator)
        idx == {i \in DOMAIN toks : HasPrefix(toks[i], withValue)}
    IN  IF idx = {} THEN <<>> ELSE TrimPrefix(toks[MaxOf(idx)], withValue)

\* A tag with an empty `=VALUE` form.
Malformed(tag) ==
    \E i \in DOMAIN Split(tag, tagSeparator) :
        Split(tag, tagSeparator)[i] \in
            {envFlagWithValue, flagFlagWithValue, defaultFlagWithValue}

IsExported(f) == IsUpper(f.name[1])

PtrLevels(t) == Cardinality({i \in DOMAIN t : t[i] = "ptr"})

IsStructType(t) == Len(t) = 1 /\ t[1] \in StructNames /\ t # timeType

\* A struct without pointer fields and without embedded fields, at any depth.
RECURSIVE Plain(_)
Plain(t) ==
    \A i \in DOMAIN StructDefs[t[1]] :
        LET f == StructDefs[t[1]][i]
        IN  /\ ~f.anonymous
            /\ Kind(f.type) # "ptr"
            /\ (IsStructType(f.type) => Plain(f.type))

\* The leaves a struct of type t at loc shows once the nil pointers to
\* structs in it are allocated, in declaration order, depth first: a field
\* that is a struct or a pointer to a struct stands for its own leaves.
RECURSIVE Leaves(_, _)
RECURSIVE LeavesFrom(_, _, _)
LeavesFrom(t, loc, n) ==
    IF n > Len(StructDefs[t[1]]) THEN <<>>
    ELSE LET f == StructDefs[t[1]][n]
             here == IF ~IsExported(f) THEN <<>>
                     ELSE IF IsStructType(f.type) THEN Leaves(f.type, Append(loc, n))
                     ELSE IF PtrLevels(f.type) = 1 /\ IsStructType(Elem(f.type))
                          THEN Leaves(Elem(f.type), loc \o <<n, 0>>)
                     ELSE <<Append(loc, n)>>
         IN  here \o LeavesFrom(t, loc, n + 1)

Leaves(t, loc) == LeavesFrom(t, loc, 1)

\* The zero value of t with every nil pointer to a struct in an exported
\* field allocated, and so on inside the allocated structs.
RECURSIVE VivZero(_)
VivZero(t) ==
    IF IsStructType(t)
    THEN VStruct([i \in DOMAIN StructDefs[t[1]] |->
             LET f == StructDefs[t[1]][i]
             IN  IF ~IsExported(f) THEN Zero(f.type)
                 ELSE IF PtrLevels(f.type) = 1 /\ IsStructType(Elem(f.type))
                      THEN VPtr(VivZero(Elem(f.type)))
                 ELSE VivZero(f.type)])
    ELSE Zero(t)

\* The exported fields the value v of type t holds at loc: those of the
\* struct itself, of its struct fields and of the structs its non-nil
\* pointers lead to.
RECURSIVE FieldsIn(_, _, _)
FieldsIn(t, v, loc) ==
    IF Kind(t) = "ptr"
    THEN IF v.k = "ptr" THEN FieldsIn(Elem(t), v.fs[1], Append(loc, 0)) ELSE {}
    ELSE IF ~IsStructType(t) THEN {}
    ELSE UNION { LET f == StructDefs[t[1]][i]
                 IN  IF ~IsExported(f) THEN {}
                     ELSE {[loc |-> Append(loc, i), type |-> f.type]}
                          \cup FieldsIn(f.type, v.fs[i], Append(loc, i))
                 : i \in DOMAIN StructDefs[t[1]] }

\* The number of pointers to follow in v before a nil pointer is met.
RECURSIVE NilDepth(_)
NilDepth(v) == IF v.k = "ptr" THEN 1 + NilDepth(v.fs[1]) ELSE 0

Derefs(n) == [i \in 1..n |-> 0]

CatalogLocs == [i \in DOMAIN catalog |-> catalog[i].val.loc]
At(loc) == {i \in DOMAIN catalog : catalog[i].val.loc = loc}
Below(loc) == {i \in DOMAIN catalog :
                  IsPrefixOf(loc, catalog[i].val.loc) /\ catalog[i].val.loc # loc}

(***************************************************************************)
(* The claims.                                                             *)
(***************************************************************************)
ExpectedENVKey(loc) ==
    LET tag == DeclField(<<root>>, loc).tag
    IN  IF LastExplicit(tag, envFlagWithValue) # <<>>
        THEN LastExplicit(tag, envFlagWithValue)
        ELSE IF HasDirective(tag, envFlag)
        THEN ToUpper(Join(DeclNames(<<root>>, loc), <<"_">>))
        ELSE <<>>

ExpectedFlagKey(loc) ==
    LET tag == DeclField(<<root>>, loc).tag
    IN  IF LastExplicit(tag, flagFlagWithValue) # <<>>
        THEN LastExplicit(tag, flagFlagWithValue)
        ELSE IF HasDirective(tag, flagFlag)
        THEN ToLower(Join(DeclNames(<<root>>, loc), <<"-">>))
        ELSE <<>>

\* C1: for every descriptor of a catalog getStructInfo returned, ENVKey is
\* the explicit env value if the tag gives one, else the declared names of
\* the non-embedded ancestors and of the field joined with `_` in upper case
\* if the tag has an env directive, else empty; FlagKey likewise with `-`
\* and lower case.  Embedded structs add no name.
C1_Keys ==
    st = "ok" =>
        \A i \in DOMAIN catalog :
            /\ ENVKey(catalog[i]) = ExpectedENVKey(catalog[i].val.loc)
            /\ FlagKey(catalog[i]) = ExpectedFlagKey(catalog[i].val.loc)

\* A catalog with a derived env key of two names for a field that lies
\* under an embedded struct, and a field with an explicit env value.
C1_Witness ==
    /\ st = "ok"
    /\ \E i \in DOMAIN catalog :
          /\ UnderEmbedded(<<root>>, catalog[i].val.loc)
          /\ Len(DeclNames(<<root>>, catalog[i].val.loc)) = 2
          /\ catalog[i].tag.hasENV /\ catalog[i].tag.env = <<>>
          /\ ENVKey(catalog[i]) = <<"I","N","N","E","R","_","I","D">>
          /\ FlagKey(catalog[i]) = <<"i","n","n","e","r","-","i","d">>

Returned3 == {"ok", "ErrInvalidConfig", "ErrInvalidTagFormat"}

\* C2: every call of getStructInfo returns a catalog or an error, also for
\* a struct type that reaches itself through a pointer.
C2_Terminates == phase = "built" => st \in Returned3

\* C3: setFieldValue with a valid RFC3339 string into a time.Time or a
\* *time.Time returns no error and leaves the parsed time in the
\* destination; ErrUnsupported is returned only for other structs.
C3_TimeCoerced ==
    (res # "none" /\ dstType \in {timeType, timePtrType} /\ ParseTime(raw).ok) =>
        /\ res = "nil"
        /\ res # "ErrUnsupported"
        /\ dst = IF dstType = timeType THEN VTime(ParseTime(raw).d)
                 ELSE VPtr(VTime(ParseTime(raw).d))

\* What the rule of the scalar type <<b>> makes of the raw string v.
ScalarRule(b, v) == setFieldValue(Zero(<<b>>), Handle(<<>>, <<b>>), <<b>>, v)

\* C4: setFieldValue into a pointer to a scalar, with a literal the scalar's
\* rule accepts, returns no error and leaves in the destination a pointer
\* to what the scalar's rule yields, for every scalar kind.
C4_PtrScalarCoerced ==
    \A b \in ScalarBases :
        (res # "none" /\ dstType = <<"ptr", b>> /\ ScalarRule(b, raw).res = "nil") =>
            /\ res = "nil"
            /\ dst = VPtr(ScalarRule(b, raw).root)

Families == { <<envFlag, envFlagWithValue, "env">>,
              <<flagFlag, flagFlagWithValue, "flag">>,
              <<defaultFlag, defaultFlagWithValue, "default">> }

Has(t, fam) ==
    IF fam = "env" THEN t.hasENV ELSE IF fam = "flag" THEN t.hasFlag ELSE t.hasDefault

Explicit(t, fam) ==
    IF fam = "env" THEN t.env ELSE IF fam = "flag" THEN t.flag ELSE t.defVal

\* The tokens of the tag that belong to the family with the bare form `bare`.
Occurrences(tag, bare) ==
    {i \in DOMAIN Split(tag, tagSeparator) : HasPrefix(Split(tag, tagSeparator)[i], bare)}

\* C5 as amended: a tag parses unless some token is an empty `=VALUE` form;
\* then each family's has-flag tells whether the family occurs, and its
\* explicit value is that of the last occurrence of the form `=VALUE`,
\* empty if all occurrences are bare.
C5_LastExplicitWins ==
    tagOut.done =>
        /\ tagOut.err = Malformed(tagIn)
        /\ ~tagOut.err =>
              \A fam \in Families :
                  /\ Has(tagOut.tag, fam[3]) = HasDirective(tagIn, fam[1])
                  /\ Explicit(tagOut.tag, fam[3]) = LastExplicit(tagIn, fam[2])

\* `env=A,env` was parsed and kept the explicit value A.
C5_Witness ==
    /\ tagOut.done /\ ~tagOut.err
    /\ tagIn = <<"e","n","v","=","A",",","e","n","v">>
    /\ tagOut.tag.hasENV /\ tagOut.tag.env = <<"A">>

\* C5: when a family occurs more than once in a tag, the directive set is
\* the one the last occurrence alone would produce.
C5_LastOccurrenceWins ==
    (tagOut.done /\ ~tagOut.err) =>
        \A fam \in Families :
            Cardinality(Occurrences(tagIn, fam[1])) >= 2 =>
                LET last == Split(tagIn, tagSeparator)[MaxOf(Occurrences(tagIn, fam[1]))]
                    alone == parseTag(last)
                IN  /\ ~alone.err
                    /\ Has(tagOut.tag, fam[3]) = Has(alone.tag, fam[3])
                    /\ Explicit(tagOut.tag, fam[3]) = Explicit(alone.tag, fam[3])

NilStructPtr(f) ==
    /\ PtrLevels(f.type) = 1 /\ IsStructType(Elem(f.type))
    /\ ValAt(pre, f.loc) = VNil

NilScalarPtr(f) ==
    /\ PtrLevels(f.type) = 1 /\ Elem(f.type)[1] \in ScalarBases
    /\ ValAt(pre, f.loc) = VNil

\* The leaves of the struct allocated behind the pointer field f are in the
\* catalog.
LeavesListed(f) ==
    \A k \in DOMAIN Leaves(Elem(f.type), Append(f.loc, 0)) :
        At(Leaves(Elem(f.type), Append(f.loc, 0))[k]) # {}

ScalarPtrKept(f) ==
    /\ ValAt(val, f.loc) = VNil
    /\ Cardinality(At(f.loc)) = 1
    /\ Below(f.loc) = {}

\* C6 as amended: after a successful getStructInfo every exported field
\* that was a nil pointer to a struct (not to a time.Time) points to an
\* instance that is zero but for its own exported pointers to structs, which
\* are allocated in the same way, and the instance's leaves are in the
\* catalog; every exported nil pointer to a scalar is still nil and is
\* exactly one descriptor.
C6_Vivified ==
    (phase = "built" /\ st = "ok") =>
        \A f \in FieldsIn(<<root>>, pre, <<>>) :
            /\ NilStructPtr(f) =>
                  /\ ValAt(val, f.loc) = VPtr(VivZero(Elem(f.type)))
                  /\ LeavesListed(f)
            /\ NilScalarPtr(f) => ScalarPtrKept(f)

\* A nil pointer to a struct that has a pointer to a struct itself was
\* allocated, next to a nil pointer to a scalar that was kept.
C6_Witness ==
    /\ phase = "built" /\ st = "ok"
    /\ \E f \in FieldsIn(<<root>>, pre, <<>>) :
          /\ NilStructPtr(f)
          /\ VivZero(Elem(f.type)) # Zero(Elem(f.type))
          /\ ValAt(val, f.loc) = VPtr(VivZero(Elem(f.type)))
          /\ Leaves(Elem(f.type), Append(f.loc, 0)) # <<>>
    /\ \E f \in FieldsIn(<<root>>, pre, <<>>) : NilScalarPtr(f) /\ ScalarPtrKept(f)

\* C6: ... points to a zero-valued instance ...
C6_ZeroInstance ==
    (phase = "built" /\ st = "ok") =>
        \A f \in FieldsIn(<<root>>, pre, <<>>) :
            /\ NilStructPtr(f) =>
                  /\ ValAt(val, f.loc) = VPtr(Zero(Elem(f.type)))
                  /\ LeavesListed(f)
            /\ NilScalarPtr(f) => ScalarPtrKept(f)

\* A field with two or more levels of pointers above a struct.
PtrPtrStruct(f) ==
    PtrLevels(f.type) >= 2 /\ IsStructType(<<Base(f.type)>>)

\* Where the first nil pointer of the chain of field f lies.
NilLoc(f) == f.loc \o Derefs(NilDepth(ValAt(pre, f.loc)))

\* C7 as amended: in a field with two or more levels of pointers above a
\* struct S the walker follows the non-nil pointers and allocates only a nil
\* pointer whose pointed-to type is S itself.  A nil pointer further out
\* stays nil, nothing is allocated behind it, it is the field's one leaf
\* descriptor and no field of S is in the catalog; with every level but the
\* last populated, S is allocated and its leaves are in the catalog.
C7_Chain ==
    (phase = "built" /\ st = "ok") =>
        \A f \in FieldsIn(<<root>>, pre, <<>>) :
            PtrPtrStruct(f) =>
                /\ NilDepth(ValAt(pre, f.loc)) < PtrLevels(f.type) - 1 =>
                      /\ ValAt(val, NilLoc(f)) = VNil
                      /\ Cardinality(At(NilLoc(f))) = 1
                      /\ \A i \in At(NilLoc(f)) :
                            catalog[i].val.type =
                                SubSeq(f.type, NilDepth(ValAt(pre, f.loc)) + 1, Len(f.type))
                      /\ Below(f.loc) \ At(NilLoc(f)) = {}
                /\ NilDepth(ValAt(pre, f.loc)) = PtrLevels(f.type) - 1 =>
                      /\ ValAt(val, NilLoc(f)) = VPtr(VivZero(<<Base(f.type)>>))
                      /\ \A k \in DOMAIN Leaves(<<Base(f.type)>>, Append(NilLoc(f), 0)) :
                            At(Leaves(<<Base(f.type)>>, Append(NilLoc(f), 0))[k]) # {}

\* A field `**S` that was nil is still nil and is one leaf descriptor.
C7_Witness ==
    /\ phase = "built" /\ st = "ok"
    /\ \E f \in FieldsIn(<<root>>, pre, <<>>) :
          /\ PtrPtrStruct(f)
          /\ ValAt(pre, f.loc) = VNil
          /\ ValAt(val, f.loc) = VNil
          /\ Cardinality(At(f.loc)) = 1

\* C7: from a nil outer pointer every level of a field `**S` is allocated
\* and the fields of S are in the catalog.
C7_AllLevelsAllocated ==
    (phase = "built" /\ st = "ok") =>
        \A f \in FieldsIn(<<root>>, pre, <<>>) :
            (PtrPtrStruct(f) /\ ValAt(pre, f.loc) = VNil) =>
                /\ NilDepth(ValAt(val, f.loc)) = PtrLevels(f.type)
                /\ \A k \in DOMAIN Leaves(<<Base(f.type)>>, <<>>) :
                      At(f.loc \o Derefs(PtrLevels(f.type))
                         \o Leaves(<<Base(f.type)>>, <<>>)[k]) # {}

\* The indices of the exported fields of struct t, in declaration order.
ExportedIdx(t) ==
    SelectSeq([i \in DOMAIN StructDefs[t[1]] |-> i],
              LAMBDA i : IsExported(StructDefs[t[1]][i]))

\* Some tag of an exported field of the plain struct t, at any depth, has an
\* empty `=VALUE` form.
RECURSIVE AnyMalformed(_)
AnyMalformed(t) ==
    \E i \in DOMAIN StructDefs[t[1]] :
        LET f == StructDefs[t[1]][i]
        IN  /\ IsExported(f)
            /\ \/ Malformed(f.tag)
               \/ IsStructType(f.type) /\ AnyMalformed(f.type)

PlainRoot == arg = "ptr" /\ root \in StructNames /\ Plain(<<root>>)

\* C8 as amended: for a root struct without pointer fields and embedded
\* fields getStructInfo succeeds unless a tag is malformed, and the catalog
\* it returns has exactly one descriptor per exported leaf field, in
\* declaration order: an exported field that is a named struct is no
\* descriptor itself, the exported leaves of the struct take its place; no
\* unexported field has a descriptor.
C8_OnePerLeaf ==
    (phase # "init" /\ PlainRoot) =>
        /\ (st = "ok") = ~AnyMalformed(<<root>>)
        /\ st = "ok" =>
              /\ CatalogLocs = Leaves(<<root>>, <<>>)
              /\ \A i \in DOMAIN catalog :
                    /\ catalog[i].field = DeclField(<<root>>, catalog[i].val.loc)
                    /\ IsExported(catalog[i].field)
                    /\ catalog[i].val.type = catalog[i].field.type

\* The catalog of a plain root with a nested struct and unexported fields.
C8_Witness ==
    /\ st = "ok" /\ PlainRoot
    /\ \E i \in DOMAIN catalog : Len(catalog[i].val.loc) = 2
    /\ \E i \in DOMAIN StructDefs[root] : ~IsExported(StructDefs[root][i])
    /\ CatalogLocs = Leaves(<<root>>, <<>>)
    /\ \E i \in DOMAIN StructDefs[root] :
          /\ IsExported(StructDefs[root][i])
          /\ IsStructType(StructDefs[root][i].type)
          /\ At(<<i>>) = {}

\* C8: the catalog of a root struct without pointer fields and embedded
\* fields has exactly one descriptor per exported field of the struct, in
\* declaration order.
C8_OnePerField ==
    (st = "ok" /\ PlainRoot) =>
        /\ Len(catalog) = Len(ExportedIdx(<<root>>))
        /\ \A i \in DOMAIN catalog :
              catalog[i].field = StructDefs[root][ExportedIdx(<<root>>)[i]]

\* C9: the handle of every leaf descriptor has the field's declared type,
\* whatever the struct holds.
C9_HandleType ==
    st = "ok" =>
        \A i \in DOMAIN catalog : catalog[i].val.type = catalog[i].field.type

NarrowSigned == {"int8", "int16", "int32"}
NarrowUnsigned == {"uint8", "uint16", "uint32"}

\* C10: when setFieldValue succeeds on an integer destination of 8, 16 or
\* 32 bits, the destination holds the integer the literal denotes.
C10_NarrowExact ==
    /\ (res = "nil" /\ Len(dstType) = 1 /\ dstType[1] \in NarrowSigned) =>
          dst = VNum(ParseInt(raw, 64).n)
    /\ (res = "nil" /\ Len(dstType) = 1 /\ dstType[1] \in NarrowUnsigned) =>
          dst = VNum(ParseUint(raw, 64).n)

====
